---- MODULE Spec2Model ----
(***************************************************************************)
(* TAP trading: the server ledger (src/src/lib/server/db.ts), the server   *)
(* actions that mutate it (src/src/app/actions.ts), the client position    *)
(* store (src/src/store/tradingStore.ts) and the settlement, expiry and    *)
(* bet-placement handlers of the page (src/src/app/page.tsx).              *)
(*                                                                         *)
(* Every `await` of an async server action or handler is a scheduling      *)
(* point: the code between two awaits is one atomic action, and other      *)
(* calls may run between them.  Money is counted in whole units and prices *)
(* in ticks; Date.now() is the variable `now` in milliseconds.             *)
(***************************************************************************)
EXTENDS Integers, Sequences, FiniteSets, TLC

\* ---------------------------------------------------------------- bounds
MaxCalls == 3          \* verifyDeposit + requestWithdrawal + handleGridTap calls started
MaxTicks == 1          \* how many expiry slots the clock advances
MaxSweeps == 2         \* settlement sweeps the model can hold in flight at once
MaxSubscriptions == 2          \* subscribeToPriceUpdates calls on one service
MaxUnsubCalls == 3             \* calls of one unsubscribe function
MaxSockets == 3                \* WebSocket objects one service creates
MaxTimers == 2                 \* reconnect timers pending at once
MaxApplications == 2           \* calls of a utils/probability.ts function on the same arguments
MaxPrices == 4                 \* length of a price list
MaxComponents == 2             \* Home components that mount and unmount
MaxFeedSubscriptions == 3      \* subscriptions the page makes on the shared feed
MaxPendingTimers == 2          \* teardown timeouts pending at once

\* ------------------------------------------------------- program constants
MaxAttempts == 5               \* page.tsx: (pos.settlementAttempts || 0) < 5
NotifyFrom == 2                \* page.tsx: (pos.settlementAttempts || 0) >= 2
MIN_BET_TIME_SECONDS == 10     \* config: TRADING_CONFIG.MIN_BET_TIME_SECONDS
TolerancePercent == 1          \* actions.ts: expectedAmount * 0.01
ZoneDivisor == 1000            \* page.tsx: gridCellPercent / 2 = 0.001 of the target
MaxReconnectAttempts == 5      \* both price services: maxReconnectAttempts = 5
Bp == 10000                    \* returns and volatilities are counted in 1/10000
Micro == 1000000               \* price distances are counted in 1/1000000
Milli == 1000                  \* leverages and factors are counted in 1/1000
DefaultVolatility == 35        \* probability.ts: 0.0035
VolatilityFloor == 20          \* probability.ts: 0.002
VolatilityCeiling == 600       \* probability.ts: 0.06
MinLeverage == 5               \* probability.ts: Math.max(5, ...)
MaxLeverage == 50              \* probability.ts: Math.min(50, ...)
GraceMs == 250                 \* page.tsx: delay of the teardown timeout

\* ------------------------------------------------------------ input sets
Wallets == {"w1", "w2"}
ConnectedWallets == {"w1"}     \* the wallet connected to the page whose store is modelled
TxSigs == {"t1", "t2"}
BetAmounts == {50}
WithdrawAmounts == {60}
Leverages == {10}
Prices == {1000, 2000}
Targets == {1000}
SlotMs == MIN_BET_TIME_SECONDS * 1000

\* The USDC amount the chain reports for a transaction signature: a fact of
\* the chain, the same for every caller that looks the signature up.
ChainAmount(tx) == IF tx = "t1" THEN 100 ELSE 101

\* The amounts a depositor claims for a signature.
ExpectedAmounts(tx) == IF tx = "t1" THEN {100} ELSE {100, 103}

VARIABLES
    users,               \* Database: walletAddress -> UserBalance
    calls,               \* server-action calls in flight (or just returned)
    nextCid,             \* serial of the next call
    now,                 \* Date.now()
    currentPrice,        \* store.currentPrice
    positions,           \* store.positions (newest first)
    notifications,       \* store.notifications, as the multiset of its entries
    isSettling,          \* page state: settlement mutex
    isDriftAccountReady, \* page state
    effectPending,       \* the settlement effect's dependencies changed since it last ran
    sweeps,              \* settlePositions invocations in flight
    stats,               \* store.stats
    hist,                \* history of external effects (credits, transfers, venue closes)
    pyth,                \* a PythWebSocketService instance, its sockets and timers
    binance,             \* a BinanceWebSocketService instance, its sockets and timers
    subs,                \* the unsubscribe functions handed out by subscribeToPriceUpdates
    lastCall,            \* the unsubscribe function called by the last step (0: none)
    lastDelivered,       \* the subscriptions whose callback the last step invoked
    fn,                  \* a call of a function of utils/probability.ts: arguments and result
    page                 \* page.tsx module state: the shared price feed and the mounted components

mainVars == <<users, calls, nextCid, now, currentPrice, positions, notifications, stats,
              isSettling, isDriftAccountReady, effectPending, sweeps, hist>>

feedVars == <<pyth, binance, subs, lastCall, lastDelivered>>

auxVars == <<feedVars, fn, page>>

vars == <<mainVars, auxVars>>

clientVars == <<currentPrice, positions, notifications, stats, isSettling,
                isDriftAccountReady, effectPending, sweeps>>

\* ------------------------------------------------------------------ helpers
Min2(a, b) == IF a <= b THEN a ELSE b
Max2(a, b) == IF a >= b THEN a ELSE b
Abs(x) == IF x < 0 THEN -x ELSE x

\* ------------------------------------------------------------------ Database
NewUser ==
    [balance |-> 0, totalDeposits |-> 0, totalWithdrawals |-> 0, totalBets |-> 0,
     totalWinnings |-> 0, deposits |-> <<>>, withdrawals |-> <<>>, bets |-> <<>>]

\* Database.getUser: the stored record (a missing one is created with zeros,
\* which is what every wallet holds initially).
GetUser(w) == users[w]

UpdateUserEveryRecord(db, w, updates) ==
    [v \in DOMAIN db |-> [f \in DOMAIN db[v] |->
                            IF f \in DOMAIN updates THEN updates[f] ELSE db[v][f]]]

\* Database.updateUser: re-reads the stored record and overwrites only the
\* fields named in `updates`.
UpdateUser(db, w, updates) ==
    [db EXCEPT ![w] = [f \in DOMAIN @ |->
                         IF f \in DOMAIN updates THEN updates[f] ELSE @[f]]]

\* Bookkeeping for the calls in flight: another call wrote the account of w.
Touch(cs, w, self) ==
    {IF c.wallet = w /\ c.cid # self THEN [c EXCEPT !.clean = FALSE] ELSE c : c \in cs}

CallsOf(kind) == {c \in calls : c.kind = kind}

\* --------------------------------------------------------------- verifyDeposit
\* actions.ts 29-34: read the user, reject a signature already in user.deposits.
DepositAlreadyCredited(user, tx) ==
    \E i \in 1..Len(user.deposits) : user.deposits[i].txSignature = tx

\* actions.ts 70: Math.abs(actualAmount - expectedAmount) > expectedAmount * 0.01
AmountMismatch(actual, expected) ==
    100 * Abs(actual - expected) > expected * TolerancePercent

\* First half of verifyDeposit, up to the first await (the RPC lookup).
VerifyDepositStart(w, tx, expected) ==
    /\ nextCid <= MaxCalls
    /\ LET user == GetUser(w) IN
         /\ ~DepositAlreadyCredited(user, tx)
         /\ calls' = calls \cup
              {[kind |-> "verifyDeposit", cid |-> nextCid, wallet |-> w, pc |-> "chain",
                tx |-> tx, amount |-> expected, user |-> user,
                afterCredit |-> hist.credits[<<w, tx>>] > 0,
                preBalance |-> user.balance, preTotal |-> user.totalDeposits,
                clean |-> TRUE]}
    /\ nextCid' = nextCid + 1
    /\ UNCHANGED <<users, hist, now, clientVars>>
    /\ UNCHANGED auxVars

\* A call rejected at lines 32-34 returns 'Deposit already credited' and
\* writes nothing.
VerifyDepositDuplicate(w, tx) ==
    /\ DepositAlreadyCredited(GetUser(w), tx)
    /\ UNCHANGED vars

\* Second half: the lookup answered.  found = FALSE covers a missing or
\* failed transaction, no USDC transfer to the universal wallet, and a thrown
\* RPC error: all return failure without a write.
VerifyDepositFinish(c, found) ==
    /\ c \in CallsOf("verifyDeposit")
    /\ c.pc = "chain"
    /\ LET actualAmount == ChainAmount(c.tx)
           user == c.user IN
         IF found /\ ~AmountMismatch(actualAmount, c.amount)
         THEN /\ users' = UpdateUser(users, c.wallet,
                    [balance |-> user.balance + actualAmount,
                     totalDeposits |-> user.totalDeposits + actualAmount,
                     deposits |-> Append(user.deposits,
                        [txSignature |-> c.tx, amount |-> actualAmount, verified |-> TRUE])])
              /\ hist' = [hist EXCEPT !.credits[<<c.wallet, c.tx>>] = @ + 1]
              /\ calls' = Touch(calls \ {c}, c.wallet, c.cid)
         ELSE /\ calls' = calls \ {c}
              /\ UNCHANGED <<users, hist>>
    /\ UNCHANGED <<nextCid, now, clientVars>>
    /\ UNCHANGED auxVars

\* ------------------------------------------------------------ requestWithdrawal
InsufficientBalanceNever(user, amount) == FALSE

\* actions.ts 163 and 218: user.balance < amount
InsufficientBalance(user, amount) == user.balance < amount

WithdrawalRefundBalanceOnly(currentUser, amount) ==
    [balance |-> currentUser.balance + amount]

\* actions.ts 293-297: the refund of the catch block.
WithdrawalRefund(currentUser, amount) ==
    [balance |-> currentUser.balance + amount,
     totalWithdrawals |-> currentUser.totalWithdrawals - amount]

\* actions.ts 216-220: 'Insufficient balance', nothing written, nothing sent.
RequestWithdrawalInsufficient(w, amount) ==
    /\ InsufficientBalance(GetUser(w), amount)
    /\ UNCHANGED vars

\* actions.ts 216-234: debit and append the pending record, then the first
\* await of the transfer.
RequestWithdrawalStart(w, amount) ==
    /\ nextCid <= MaxCalls
    /\ LET user == GetUser(w)
           txId == <<"withdrawal", now>> IN
         /\ ~InsufficientBalance(user, amount)
         /\ users' = UpdateUser(users, w,
               [balance |-> user.balance - amount,
                totalWithdrawals |-> user.totalWithdrawals + amount,
                withdrawals |-> Append(user.withdrawals,
                    [txSignature |-> txId, amount |-> amount, status |-> "pending",
                     by |-> nextCid])])
         /\ calls' = Touch(calls, w, nextCid) \cup
              {[kind |-> "requestWithdrawal", cid |-> nextCid, wallet |-> w,
                pc |-> "transfer", amount |-> amount, txId |-> txId, sent |-> FALSE,
                preBalance |-> user.balance, preTotal |-> user.totalWithdrawals,
                clean |-> TRUE]}
    /\ nextCid' = nextCid + 1
    /\ UNCHANGED <<hist, now, clientVars>>
    /\ UNCHANGED auxVars

\* actions.ts 236-299.  outcome "ok": sendRawTransaction and confirmTransaction
\* returned; "notSent": a step before sendRawTransaction threw (missing key,
\* RPC error); "unconfirmed": sendRawTransaction returned and confirmTransaction
\* threw.  Both failures run the catch block.
RequestWithdrawalFinish(c, outcome) ==
    /\ c \in CallsOf("requestWithdrawal")
    /\ c.pc = "transfer"
    /\ LET currentUser == GetUser(c.wallet)
           txSig == <<"sig", c.cid>> IN
         IF outcome = "ok"
         THEN /\ users' = UpdateUser(users, c.wallet,
                   [withdrawals |->
                      [i \in 1..Len(currentUser.withdrawals) |->
                         IF currentUser.withdrawals[i].txSignature = c.txId
                         THEN [currentUser.withdrawals[i] EXCEPT
                                 !.txSignature = txSig, !.status = "completed"]
                         ELSE currentUser.withdrawals[i]]])
              /\ calls' = Touch(calls \ {c}, c.wallet, c.cid)
              /\ hist' = [hist EXCEPT !.sent = @ \cup {c.cid},
                                      !.confirmed = @ \cup {c.cid}]
         ELSE /\ users' = UpdateUser(users, c.wallet, WithdrawalRefund(currentUser, c.amount))
              /\ calls' = Touch(calls \ {c}, c.wallet, c.cid) \cup
                   {[c EXCEPT !.pc = "failed", !.sent = (outcome = "unconfirmed")]}
              /\ hist' = [hist EXCEPT !.sent =
                            IF outcome = "unconfirmed" THEN @ \cup {c.cid} ELSE @,
                                      !.refunded = @ \cup {c.cid}]
    /\ UNCHANGED <<nextCid, now, clientVars>>
    /\ UNCHANGED auxVars

\* The caller has read the failure result of a call; the call is over.
Release(c) ==
    /\ c \in calls
    /\ c.pc = "failed"
    /\ calls' = calls \ {c}
    /\ UNCHANGED <<users, hist, nextCid, now, clientVars>>
    /\ UNCHANGED auxVars

\* --------------------------------------------------------------- notifications
Notif(type, kind, id) == [type |-> type, kind |-> kind, id |-> id]

\* store.addNotification
AddNotification(bag, n) ==
    IF n \in DOMAIN bag THEN [bag EXCEPT ![n] = @ + 1] ELSE bag @@ (n :> 1)

\* ------------------------------------------------------ handleGridTap / placeBet
NoSig == <<"none", 0>>

\* page.tsx 544-547: the zone is the target plus and minus 0.1 % of it.
ZoneHalfWidth(targetPrice) == targetPrice \div ZoneDivisor

\* actions.ts 161-165 reached with too small a balance: placeBet returns
\* 'Insufficient balance' and handleGridTap reports the failure.
PlaceBetInsufficient(w, betAmount) ==
    /\ nextCid <= MaxCalls
    /\ currentPrice > 0
    /\ InsufficientBalance(GetUser(w), betAmount)
    /\ nextCid' = nextCid + 1
    /\ notifications' = AddNotification(notifications, Notif("error", "BetFailed", 0))
    /\ UNCHANGED <<users, calls, hist, now, currentPrice, positions, stats, isSettling,
                   isDriftAccountReady, effectPending, sweeps>>
    /\ UNCHANGED auxVars

\* page.tsx 495-565 and actions.ts 161-181: a tap that passes the client
\* checks (wallet connected, price known, expiry at least MIN_BET_TIME_SECONDS
\* ahead), then placeBet up to its await of executeTrade: the debit and the
\* bet record.  The awaits before the debit only read.
HandleGridTap(w, targetPrice, leverage, betAmount) ==
    /\ nextCid <= MaxCalls
    /\ currentPrice > 0
    /\ LET user == GetUser(w)
           expiryTime == now + SlotMs
           direction == IF targetPrice > currentPrice THEN "long" ELSE "short"
           betId == now IN
         /\ ~((expiryTime - now) < MIN_BET_TIME_SECONDS * 1000)
         /\ ~InsufficientBalance(user, betAmount)
         /\ users' = UpdateUser(users, w,
               [balance |-> user.balance - betAmount,
                totalBets |-> user.totalBets + betAmount,
                bets |-> Append(user.bets,
                    [betId |-> betId, amount |-> betAmount, leverage |-> leverage,
                     direction |-> direction, txSignature |-> NoSig,
                     result |-> "none", pnl |-> 0,
                     by |-> nextCid, payouts |-> 0])])
         /\ calls' = Touch(calls, w, nextCid) \cup
              {[kind |-> "placeBet", cid |-> nextCid, wallet |-> w, pc |-> "trade",
                amount |-> betAmount, betId |-> betId, leverage |-> leverage,
                direction |-> direction, targetPrice |-> targetPrice,
                entryPrice |-> currentPrice, expiryTime |-> expiryTime,
                preBalance |-> user.balance, preTotal |-> user.totalBets,
                clean |-> TRUE]}
    /\ nextCid' = nextCid + 1
    /\ UNCHANGED <<hist, now, clientVars>>
    /\ UNCHANGED auxVars

\* page.tsx 577-597: the position handleGridTap adds for an accepted bet.
NewPosition(c, txSig) ==
    [id |-> c.betId, userId |-> c.wallet,
     direction |-> IF c.direction = "long" THEN "LONG" ELSE "SHORT",
     entryPrice |-> c.entryPrice, targetPrice |-> c.targetPrice,
     zoneLowerBound |-> c.targetPrice - ZoneHalfWidth(c.targetPrice),
     zoneUpperBound |-> c.targetPrice + ZoneHalfWidth(c.targetPrice),
     expiryTime |-> c.expiryTime, size |-> c.amount * c.leverage,
     betAmount |-> c.amount, multiplier |-> c.leverage,
     status |-> "active", txSignature |-> txSig,
     takeProfitOrderId |-> 0, stopLossOrderId |-> 0,
     realizedPnL |-> 0, resolvedAt |-> -1, resolvedPrice |-> 0,
     settledOnChain |-> FALSE, settlementAttempts |-> 0,
     settlementTxSignature |-> NoSig,
     by |-> c.cid]

PlaceBetRefundBalanceOnly(currentUser, betAmount) ==
    [balance |-> currentUser.balance + betAmount]

\* actions.ts 204-208: the refund of the catch block.
PlaceBetRefund(currentUser, betAmount) ==
    [balance |-> currentUser.balance + betAmount,
     totalBets |-> currentUser.totalBets - betAmount]

\* store.addPosition
AddPosition(ps, position) == <<position>> \o ps

\* actions.ts 183-210 and page.tsx 567-605: executeTrade answered.
PlaceBetFinish(c, tradeOk) ==
    /\ c \in CallsOf("placeBet")
    /\ c.pc = "trade"
    /\ IF tradeOk
       THEN LET updatedUser == GetUser(c.wallet)
                txSig == <<"sig", c.cid>> IN
            /\ users' = UpdateUser(users, c.wallet,
                  [bets |-> [i \in 1..Len(updatedUser.bets) |->
                      IF updatedUser.bets[i].betId = c.betId
                      THEN [updatedUser.bets[i] EXCEPT !.txSignature = txSig]
                      ELSE updatedUser.bets[i]]])
            /\ calls' = Touch(calls \ {c}, c.wallet, c.cid)
            /\ notifications' =
                  AddNotification(notifications, Notif("success", "BetPlaced", 0))
            /\ positions' = AddPosition(positions, NewPosition(c, txSig))
            /\ effectPending' = TRUE
       ELSE LET currentUser == GetUser(c.wallet) IN
            /\ users' = UpdateUser(users, c.wallet, PlaceBetRefund(currentUser, c.amount))
            /\ calls' = Touch(calls \ {c}, c.wallet, c.cid) \cup {[c EXCEPT !.pc = "failed"]}
            /\ notifications' =
                  AddNotification(notifications, Notif("error", "BetFailed", 0))
            /\ UNCHANGED <<positions, effectPending>>
    /\ hist' = [hist EXCEPT !.failedBets = IF tradeOk THEN @ ELSE @ \cup {c.cid}]
    /\ UNCHANGED <<nextCid, now, currentPrice, stats, isSettling,
                   isDriftAccountReady, sweeps>>
    /\ UNCHANGED auxVars

\* ------------------------------------------------------------------ checkWins
ResolveActiveAtOnce(pos, price, t) ==
    IF price >= pos.zoneLowerBound /\ price <= pos.zoneUpperBound
    THEN [pos EXCEPT !.status = "won", !.resolvedAt = t, !.resolvedPrice = price]
    ELSE [pos EXCEPT !.status = "lost", !.realizedPnL = -pos.betAmount,
                     !.resolvedAt = t, !.resolvedPrice = price]

ResolveActiveExpiryFirst(pos, price, t) ==
    IF pos.expiryTime - t > 0 THEN pos
    ELSE [pos EXCEPT !.status = "lost", !.realizedPnL = -pos.betAmount,
                     !.resolvedAt = t, !.resolvedPrice = price]

\* tradingStore.ts 188-261: what checkWins makes of an active position.
ResolveActive(pos, price, t) ==
    IF pos.expiryTime - t > 0 THEN pos
    ELSE IF pos.entryPrice <= 0 THEN pos
    ELSE LET lowerBound == pos.zoneLowerBound
             upperBound == pos.zoneUpperBound
             priceInZone == /\ price >= Min2(lowerBound, upperBound)
                            /\ price <= Max2(lowerBound, upperBound)
             leverage == IF pos.betAmount > 0 THEN pos.size \div pos.betAmount ELSE 0
             \* betAmount * leverage * (|price - entryPrice| / entryPrice)
             profit == (pos.betAmount * leverage * Abs(price - pos.entryPrice))
                          \div pos.entryPrice
         IN IF priceInZone
            THEN [pos EXCEPT !.status = "won", !.realizedPnL = profit,
                             !.resolvedAt = t, !.resolvedPrice = price]
            ELSE [pos EXCEPT !.status = "lost", !.realizedPnL = -pos.betAmount,
                             !.resolvedAt = t, !.resolvedPrice = price]

ResolvePositionAgain(pos, price, t) == ResolveActive(pos, price, t)

\* tradingStore.ts 185-186: checkWins leaves a position that is not active alone.
ResolvePosition(pos, price, t) ==
    IF pos.status # "active" THEN pos ELSE ResolveActive(pos, price, t)

\* tradingStore.ts 182, 222-225, 244-247: the statistics after the positions
\* ps[i..] have been resolved (winRate is derived from the two counters).
RECURSIVE StatsAfter(_, _, _, _)
StatsAfter(st, old, new, i) ==
    IF i > Len(old) THEN st
    ELSE IF old[i] = new[i] THEN StatsAfter(st, old, new, i + 1)
    ELSE StatsAfter(
           [totalWins |-> st.totalWins + (IF new[i].status = "won" THEN 1 ELSE 0),
            totalLosses |-> st.totalLosses + (IF new[i].status = "lost" THEN 1 ELSE 0),
            realizedPnL |-> st.realizedPnL + new[i].realizedPnL,
            totalVolume |-> st.totalVolume + new[i].betAmount],
           old, new, i + 1)

\* tradingStore.ts 168-269: store.checkWins(currentPrice) at time t.
CheckWins(ps, st, price, t) ==
    LET hasActive == \E i \in 1..Len(ps) : ps[i].status = "active"
        updatedPositions == [i \in 1..Len(ps) |-> ResolvePosition(ps[i], price, t)]
        changed == updatedPositions # ps
    IN IF ~hasActive \/ price <= 0 \/ ~changed
       THEN [positions |-> ps, stats |-> st, changed |-> FALSE]
       ELSE [positions |-> updatedPositions,
             stats |-> StatsAfter(st, ps, updatedPositions, 1),
             changed |-> TRUE]

\* page.tsx 102-109: the price feed delivers a sample.
PriceUpdate(price) ==
    /\ LET r == CheckWins(positions, stats, price, now) IN
         /\ currentPrice' = price
         /\ positions' = r.positions
         /\ stats' = r.stats
         /\ effectPending' = (effectPending \/ r.changed)
    /\ UNCHANGED <<users, calls, nextCid, now, hist, notifications, isSettling,
                   isDriftAccountReady, sweeps>>
    /\ UNCHANGED auxVars

ExpiryTimerNever == FALSE /\ UNCHANGED vars

\* page.tsx 137-161: the 300 ms timer that re-runs checkWins with the last
\* known price while an active position has passed its expiry.
ExpiryTimer ==
    /\ \E i \in 1..Len(positions) : positions[i].status = "active"
    /\ ~(currentPrice <= 0)
    /\ \E i \in 1..Len(positions) :
          positions[i].status = "active" /\ now >= positions[i].expiryTime
    /\ LET r == CheckWins(positions, stats, currentPrice, now) IN
         /\ positions' = r.positions
         /\ stats' = r.stats
         /\ effectPending' = (effectPending \/ r.changed)
    /\ UNCHANGED <<users, calls, nextCid, now, hist, currentPrice, notifications,
                   isSettling, isDriftAccountReady, sweeps>>
    /\ UNCHANGED auxVars

\* The clock moves on by one expiry slot.
Tick ==
    /\ now < MaxTicks * SlotMs
    /\ now' = now + SlotMs
    /\ UNCHANGED <<users, calls, nextCid, hist, clientVars>>
    /\ UNCHANGED auxVars

\* page.tsx 276-301: initDrift succeeded.
DriftReady ==
    /\ ~isDriftAccountReady
    /\ isDriftAccountReady' = TRUE
    /\ notifications' = AddNotification(notifications, Notif("success", "SystemReady", 0))
    /\ effectPending' = TRUE
    /\ UNCHANGED <<users, calls, nextCid, now, hist, currentPrice, positions, stats,
                   isSettling, sweeps>>
    /\ UNCHANGED auxVars

\* store.updatePosition
UpdatePosition(ps, id, updates) ==
    [i \in 1..Len(ps) |->
        IF ps[i].id = id
        THEN [f \in DOMAIN ps[i] |-> IF f \in DOMAIN updates THEN updates[f] ELSE ps[i][f]]
        ELSE ps[i]]

\* ------------------------------------------------------------------ resolveBet
\* actions.ts 310: user.bets.findIndex(b => b.betId === betId), 0 for -1.
BetIndex(user, betId) ==
    IF \E i \in 1..Len(user.bets) : user.bets[i].betId = betId
    THEN CHOOSE i \in 1..Len(user.bets) :
            /\ user.bets[i].betId = betId
            /\ \A j \in 1..(i - 1) : user.bets[j].betId # betId
    ELSE 0

ResolveBetCheckFoundOnly(user, betId) ==
    IF \A i \in 1..Len(user.bets) : user.bets[i].betId # betId
    THEN "Bet not found" ELSE "ok"

\* actions.ts 312-319: the two rejections of resolveBet.
ResolveBetCheck(user, betId) ==
    IF BetIndex(user, betId) = 0 THEN "Bet not found"
    ELSE IF user.bets[BetIndex(user, betId)].result # "none" THEN "Bet already resolved"
    ELSE "ok"

ResolveBetUpdateRefundsLoss(db, w, betId, pnl, isWin) ==
    LET user == db[w]
        betIndex == BetIndex(user, betId)
        bet == user.bets[betIndex]
    IN UpdateUser(db, w,
         [balance |-> user.balance + bet.amount,
          totalWinnings |-> user.totalWinnings,
          bets |-> [user.bets EXCEPT ![betIndex] =
                      [bet EXCEPT !.result = IF isWin THEN "win" ELSE "loss",
                                  !.pnl = IF isWin THEN pnl ELSE -bet.amount]]])

\* actions.ts 321-345: the ledger update of resolveBet.
ResolveBetUpdate(db, w, betId, pnl, isWin) ==
    LET user == db[w]
        betIndex == BetIndex(user, betId)
        bet == user.bets[betIndex]
        pays == isWin /\ pnl > 0
        totalPayout == bet.amount + pnl
    IN UpdateUser(db, w,
         [balance |-> IF pays THEN user.balance + totalPayout ELSE user.balance,
          totalWinnings |-> IF pays THEN user.totalWinnings + pnl ELSE user.totalWinnings,
          bets |-> [user.bets EXCEPT ![betIndex] =
                      [bet EXCEPT !.result = IF isWin THEN "win" ELSE "loss",
                                  !.pnl = IF isWin THEN pnl ELSE -bet.amount,
                                  !.payouts = @ + (IF pays THEN 1 ELSE 0)]]])

\* ------------------------------------------------------------- settlePositions
NeedsSettlementAnyStatus(pos) ==
    /\ ~pos.settledOnChain
    /\ pos.txSignature # <<"none", 0>>
    /\ pos.settlementAttempts < MaxAttempts

\* page.tsx 201-207
NeedsSettlement(pos) ==
    /\ pos.status = "won" \/ pos.status = "lost"
    /\ ~pos.settledOnChain
    /\ pos.txSignature # NoSig
    /\ pos.settlementAttempts < MaxAttempts

SettlementBusyNever(flag) == FALSE

\* page.tsx 196: the mutex test of settlePositions.
SettlementBusy(flag) == flag

\* page.tsx 191-213: the settlement effect runs after a render in which one
\* of its dependencies (positions, isDriftAccountReady, isSettling) changed.
SettlementEffect ==
    /\ effectPending
    /\ LET needsSettlement == SelectSeq(positions, NeedsSettlement) IN
         IF ~isDriftAccountReady
         THEN /\ effectPending' = FALSE
              /\ UNCHANGED <<isSettling, sweeps>>
         ELSE IF SettlementBusy(isSettling)
         THEN /\ effectPending' = FALSE
              /\ UNCHANGED <<isSettling, sweeps>>
         ELSE IF Len(needsSettlement) = 0
         THEN /\ effectPending' = FALSE
              /\ UNCHANGED <<isSettling, sweeps>>
         ELSE /\ Len(sweeps) < MaxSweeps
              /\ isSettling' = TRUE
              /\ effectPending' = ~isSettling
              /\ sweeps' = Append(sweeps,
                    [items |-> needsSettlement, idx |-> 1, pc |-> "resolve"])
    /\ UNCHANGED <<users, calls, nextCid, now, hist, currentPrice, positions,
                   notifications, stats, isDriftAccountReady>>
    /\ UNCHANGED auxVars

\* page.tsx 216, 261-263: the sweep after an item: the 500 ms pause, then the
\* next item of the snapshot or the end of the loop.
SweepAdvance(sw) ==
    IF sw.idx < Len(sw.items)
    THEN [sw EXCEPT !.idx = @ + 1, !.pc = "resolve"]
    ELSE [sw EXCEPT !.pc = "release"]

\* page.tsx 247-258: the catch block of one item of the sweep.
SettlementFailed(pos) ==
    /\ positions' = UpdatePosition(positions, pos.id,
                       [settlementAttempts |-> pos.settlementAttempts + 1])
    /\ notifications' =
          IF pos.settlementAttempts >= NotifyFrom
          THEN AddNotification(notifications, Notif("error", "SettlementFailed", pos.id))
          ELSE notifications
    /\ effectPending' = TRUE

\* page.tsx 216-233 and actions.ts 308-345: the sweep calls resolveBet for its
\* next item; resolveBet rejects the call or updates the ledger and goes on
\* to await the venue close.
SweepResolve(k) ==
    /\ k \in 1..Len(sweeps)
    /\ sweeps[k].pc = "resolve"
    /\ LET pos == sweeps[k].items[sweeps[k].idx]
           user == GetUser(pos.userId) IN
         /\ hist' = [hist EXCEPT !.resolves[pos.by] = @ + 1]
         /\ IF ResolveBetCheck(user, pos.id) = "ok"
            THEN /\ users' = ResolveBetUpdate(users, pos.userId, pos.id,
                                              pos.realizedPnL, pos.status = "won")
                 /\ calls' = Touch(calls, pos.userId, 0)
                 /\ sweeps' = [sweeps EXCEPT ![k].pc = "closing"]
                 /\ UNCHANGED <<positions, notifications, effectPending>>
            ELSE /\ SettlementFailed(pos)
                 /\ sweeps' = [sweeps EXCEPT ![k] = SweepAdvance(@)]
                 /\ UNCHANGED <<users, calls>>
    /\ UNCHANGED <<nextCid, now, currentPrice, stats, isSettling, isDriftAccountReady>>
    /\ UNCHANGED auxVars

\* actions.ts 347-366 and page.tsx 231-259: the venue close answered.
\* "closed": closePosition placed the reduce-only order; "none": it returned
\* null (no venue position, or a direction mismatch); "throw": it threw.
SweepClose(k, outcome) ==
    /\ k \in 1..Len(sweeps)
    /\ sweeps[k].pc = "closing"
    /\ LET pos == sweeps[k].items[sweeps[k].idx] IN
         /\ IF outcome = "throw"
            THEN /\ SettlementFailed(pos)
                 /\ hist' = [hist EXCEPT !.closeFailed = @ \cup {pos.by}]
            ELSE /\ positions' = UpdatePosition(positions, pos.id,
                       [settledOnChain |-> TRUE,
                        settlementTxSignature |-> <<"server-resolved", 0>>])
                 /\ notifications' = AddNotification(notifications,
                       Notif("success",
                             IF pos.status = "won" THEN "PayoutWIN" ELSE "PayoutLOSS", 0))
                 /\ effectPending' = TRUE
                 /\ hist' = [hist EXCEPT !.closes =
                               IF outcome = "closed" THEN @ \cup {pos.by} ELSE @]
    /\ sweeps' = [sweeps EXCEPT ![k] = SweepAdvance(@)]
    /\ UNCHANGED <<users, calls, nextCid, now, currentPrice, stats, isSettling,
                   isDriftAccountReady>>
    /\ UNCHANGED auxVars

RemoveAt(s, k) == [i \in 1..(Len(s) - 1) |-> IF i < k THEN s[i] ELSE s[i + 1]]

SweepReleaseKeepsMutex(k) ==
    /\ k \in 1..Len(sweeps)
    /\ sweeps[k].pc = "release"
    /\ sweeps' = RemoveAt(sweeps, k)
    /\ UNCHANGED <<users, calls, nextCid, now, hist, currentPrice, positions,
                   notifications, stats, isDriftAccountReady, isSettling, effectPending>>
    /\ UNCHANGED auxVars

\* page.tsx 265: the loop is over (after the last 500 ms pause); release the mutex.
SweepRelease(k) ==
    /\ k \in 1..Len(sweeps)
    /\ sweeps[k].pc = "release"
    /\ sweeps' = RemoveAt(sweeps, k)
    /\ isSettling' = FALSE
    /\ effectPending' = (effectPending \/ isSettling)
    /\ UNCHANGED <<users, calls, nextCid, now, hist, currentPrice, positions,
                   notifications, stats, isDriftAccountReady>>
    /\ UNCHANGED auxVars

\* ---------------------------------------------------------------- syncPositions
\* page.tsx 431-438: the active positions of the snapshot that carry an order
\* id; only these can reach an updatePosition in the loop.
SyncCandidates(ps) ==
    SelectSeq(ps, LAMBDA p : p.status = "active"
                             /\ (p.takeProfitOrderId # 0 \/ p.stopLossOrderId # 0))

\* page.tsx 440-461: one position of the snapshot against the open orders.
SyncOne(ps, position, driftOrders) ==
    LET tpFilled == position.takeProfitOrderId # 0
                    /\ position.takeProfitOrderId \notin driftOrders
        slFilled == position.stopLossOrderId # 0
                    /\ position.stopLossOrderId \notin driftOrders
        leverage == position.size \div position.betAmount
        profit == (position.betAmount * leverage
                     * Abs(position.targetPrice - position.entryPrice))
                     \div position.entryPrice
    IN IF tpFilled
       THEN UpdatePosition(ps, position.id, [status |-> "won", realizedPnL |-> profit])
       ELSE IF slFilled
       THEN UpdatePosition(ps, position.id,
                           [status |-> "lost", realizedPnL |-> -position.betAmount])
       ELSE ps

RECURSIVE SyncAll(_, _, _, _)
SyncAll(ps, snapshot, driftOrders, i) ==
    IF i > Len(snapshot) THEN ps
    ELSE SyncAll(SyncOne(ps, snapshot[i], driftOrders), snapshot, driftOrders, i + 1)

\* page.tsx 422-470: the 2 s timer runs syncPositions against the venue's open
\* orders.  The loop reads the positions of the render that created the
\* timer; no position the page adds carries an order id, so that snapshot
\* has no candidate whatever its age.
SyncPositions(driftOrders) ==
    /\ isDriftAccountReady
    /\ LET updated == SyncAll(positions, SyncCandidates(positions), driftOrders, 1) IN
         /\ positions' = updated
         /\ effectPending' = (effectPending \/ updated # positions)
    /\ UNCHANGED <<users, calls, nextCid, now, hist, currentPrice, notifications, stats,
                   isSettling, isDriftAccountReady, sweeps>>
    /\ UNCHANGED auxVars

\* ----------------------------------------------------------- price services
PriceIds == {"SOL", "BTC"}      \* Pyth price feed ids
Symbol == "SOLUSDT"             \* the Binance trade stream

\* WebSocket.readyState of the socket a service's `ws` field points to.
ReadyState(svc) == IF svc.ws = 0 THEN "none" ELSE svc.sockets[svc.ws]

\* ws.close(): a connecting or open socket starts closing; its close event
\* comes later.  Closing an already closing or closed socket does nothing.
CloseSocket(sockets, k) ==
    IF k # 0 /\ sockets[k] \in {"connecting", "open"}
    THEN [sockets EXCEPT ![k] = "closing"]
    ELSE sockets

\* setTimeout: the id of the new timer.
NewTimer(p) == CHOOSE t \in 1..(MaxTimers + 1) : t \notin p.timers /\ t # p.reconnectTimer

\* part_004 180-184: connect() creates a WebSocket and stores it in ws.  (The
\* catch branch needs `new WebSocket` to throw, which it does only for a
\* malformed URL; wsUrl is a constant.)
PythConnect(p) ==
    [p EXCEPT !.shouldAttemptReconnect = TRUE,
              !.sockets = Append(@, "connecting"),
              !.ws = Len(p.sockets) + 1]

\* part_004 306-325: attemptReconnect.
PythAttemptReconnect(p) ==
    IF ~p.shouldAttemptReconnect THEN p
    ELSE IF p.reconnectAttempts >= MaxReconnectAttempts THEN p
    ELSE [p EXCEPT !.reconnectAttempts = @ + 1,
                   !.timers = @ \cup {NewTimer(p)},
                   !.reconnectTimer = NewTimer(p)]

PythUnsubscribeToggles(p, priceId) ==
    [p EXCEPT !.priceCallbacks[priceId] = IF @ = 0 THEN 1 ELSE 0]

\* part_004 266-269: the function subscribeToPriceUpdates returns.  It sends
\* an unsubscribe message when the socket is open and deletes the entry of
\* the price id from priceCallbacks.
PythUnsubscribe(p, priceId) ==
    [p EXCEPT !.priceCallbacks[priceId] = 0]

BinanceConnect(b) ==
    [b EXCEPT !.sockets = Append(@, "connecting"), !.ws = Len(b.sockets) + 1]

\* withdrawalService.ts 292-297: disconnect.
BinanceDisconnect(b) ==
    IF b.ws = 0 THEN b
    ELSE [b EXCEPT !.sockets = CloseSocket(@, b.ws), !.ws = 0]

\* withdrawalService.ts 201-206: the function subscribeToPriceUpdates returns.
BinanceUnsubscribe(b, id) ==
    LET deleted == [b EXCEPT !.subscribers = @ \ {id}] IN
    IF deleted.subscribers = {} THEN BinanceDisconnect(deleted) ELSE deleted

\* Every subscription handed out so far is one of service `svc`: a behaviour
\* exercises one of the two services.
ServiceInUse(svc) == \A h \in 1..Len(subs) : subs[h].svc = svc

NoCall == /\ lastCall' = 0
          /\ lastDelivered' = {}

\* part_004 252-264: PythWebSocketService.subscribeToPriceUpdates.
PythSubscribe(priceId) ==
    /\ ServiceInUse("pyth")
    /\ Len(subs) < MaxSubscriptions
    /\ LET h == Len(subs) + 1
           p == [pyth EXCEPT !.priceCallbacks[priceId] = h] IN
         /\ subs' = Append(subs, [svc |-> "pyth", priceId |-> priceId, calls |-> 0])
         /\ IF ReadyState(p) = "open"
            THEN pyth' = p
            ELSE /\ Len(p.sockets) < MaxSockets
                 /\ pyth' = PythConnect(p)
    /\ NoCall
    /\ UNCHANGED <<mainVars, fn, page, binance>>

\* withdrawalService.ts 188-199: BinanceWebSocketService.subscribeToPriceUpdates.
\* The id is Math.random().toString(36); two calls draw different ids.
BinanceSubscribe ==
    /\ ServiceInUse("binance")
    /\ Len(subs) < MaxSubscriptions
    /\ LET id == Len(subs) + 1
           b == [binance EXCEPT !.subscribers = @ \cup {id}] IN
         /\ subs' = Append(subs, [svc |-> "binance", priceId |-> Symbol, calls |-> 0])
         /\ IF b.ws = 0 \/ ReadyState(b) # "open"
            THEN /\ Len(b.sockets) < MaxSockets
                 /\ binance' = BinanceConnect(b)
            ELSE binance' = b
    /\ NoCall
    /\ UNCHANGED <<mainVars, fn, page, pyth>>

\* A caller calls the unsubscribe function of subscription h.
Unsubscribe(h) ==
    /\ h \in 1..Len(subs)
    /\ subs[h].calls < MaxUnsubCalls
    /\ subs' = [subs EXCEPT ![h].calls = @ + 1]
    /\ IF subs[h].svc = "pyth"
       THEN /\ pyth' = PythUnsubscribe(pyth, subs[h].priceId)
            /\ UNCHANGED binance
       ELSE /\ binance' = BinanceUnsubscribe(binance, h)
            /\ UNCHANGED pyth
    /\ lastCall' = h
    /\ lastDelivered' = {}
    /\ UNCHANGED <<mainVars, fn, page>>

\* part_004 186-194: ws.onopen of socket k.
PythOnOpen(k) ==
    /\ k \in 1..Len(pyth.sockets)
    /\ pyth.sockets[k] = "connecting"
    /\ pyth' = [pyth EXCEPT !.sockets[k] = "open", !.reconnectAttempts = 0]
    /\ NoCall
    /\ UNCHANGED <<mainVars, fn, page, binance, subs>>

\* part_004 196-229: ws.onmessage of socket k with a price update of priceId.
PythOnMessage(k, priceId) ==
    /\ k \in 1..Len(pyth.sockets)
    /\ pyth.sockets[k] = "open"
    /\ lastDelivered' = IF pyth.priceCallbacks[priceId] # 0
                        THEN {pyth.priceCallbacks[priceId]} ELSE {}
    /\ lastCall' = 0
    /\ UNCHANGED <<mainVars, fn, page, pyth, binance, subs>>

\* part_004 235-240: ws.onclose of socket k (the connection failed, dropped,
\* or close() was called on it).
PythOnClose(k) ==
    /\ k \in 1..Len(pyth.sockets)
    /\ pyth.sockets[k] # "closed"
    /\ LET p == [pyth EXCEPT !.sockets[k] = "closed"] IN
         /\ (p.shouldAttemptReconnect /\ p.reconnectAttempts < MaxReconnectAttempts)
               => Cardinality(p.timers) < MaxTimers
         /\ pyth' = PythAttemptReconnect(p)
    /\ NoCall
    /\ UNCHANGED <<mainVars, fn, page, binance, subs>>

\* part_004 321-324: a reconnect timer fires.
PythTimer(t) ==
    /\ t \in pyth.timers
    /\ Len(pyth.sockets) < MaxSockets
    /\ pyth' = [PythConnect([pyth EXCEPT !.timers = @ \ {t}]) EXCEPT !.reconnectTimer = 0]
    /\ NoCall
    /\ UNCHANGED <<mainVars, fn, page, binance, subs>>

\* part_004 330-344: disconnect().
PythDisconnected(p) ==
    [p EXCEPT !.shouldAttemptReconnect = FALSE,
              !.timers = @ \ {p.reconnectTimer},
              !.reconnectTimer = 0,
              !.sockets = CloseSocket(@, p.ws),
              !.ws = 0,
              !.priceCallbacks = [id \in PriceIds |-> 0]]

PythDisconnect ==
    /\ subs # <<>> /\ ServiceInUse("pyth")
    /\ pyth' = PythDisconnected(pyth)
    /\ pyth' # pyth
    /\ NoCall
    /\ UNCHANGED <<mainVars, fn, page, binance, subs>>

\* withdrawalService.ts 218-223: ws.onopen of socket k.
BinanceOnOpen(k) ==
    /\ k \in 1..Len(binance.sockets)
    /\ binance.sockets[k] = "connecting"
    /\ binance' = [binance EXCEPT !.sockets[k] = "open", !.reconnectAttempts = 0]
    /\ NoCall
    /\ UNCHANGED <<mainVars, fn, page, pyth, subs>>

\* withdrawalService.ts 225-263: ws.onmessage of socket k; a trade with a
\* valid price is passed to every subscriber.
BinanceOnMessage(k, valid) ==
    /\ k \in 1..Len(binance.sockets)
    /\ binance.sockets[k] = "open"
    /\ lastDelivered' = IF valid THEN binance.subscribers ELSE {}
    /\ lastCall' = 0
    /\ UNCHANGED <<mainVars, fn, page, pyth, binance, subs>>

\* withdrawalService.ts 270-274 and 283-291: ws.onclose of socket k calls
\* attemptReconnect.
BinanceOnClose(k) ==
    /\ k \in 1..Len(binance.sockets)
    /\ binance.sockets[k] # "closed"
    /\ LET b == [binance EXCEPT !.sockets[k] = "closed"] IN
         IF b.reconnectAttempts < MaxReconnectAttempts /\ b.subscribers # {}
         THEN /\ b.timers < MaxTimers
              /\ binance' = [b EXCEPT !.reconnectAttempts = @ + 1, !.timers = @ + 1]
         ELSE binance' = b
    /\ NoCall
    /\ UNCHANGED <<mainVars, fn, page, pyth, subs>>

\* withdrawalService.ts 288-290: a reconnect timer fires.
BinanceTimer ==
    /\ binance.timers > 0
    /\ Len(binance.sockets) < MaxSockets
    /\ binance' = BinanceConnect([binance EXCEPT !.timers = @ - 1])
    /\ NoCall
    /\ UNCHANGED <<mainVars, fn, page, pyth, subs>>

\* part_004 166-175: the fields of a new PythWebSocketService.
NewPythWebSocketService ==
    [ws |-> 0, priceCallbacks |-> [id \in PriceIds |-> 0],
     reconnectAttempts |-> 0, shouldAttemptReconnect |-> TRUE,
     reconnectTimer |-> 0, sockets |-> <<>>, timers |-> {}]

FeedInit ==
    /\ pyth = NewPythWebSocketService
    /\ binance = [ws |-> 0, subscribers |-> {}, reconnectAttempts |-> 0,
                  sockets |-> <<>>, timers |-> 0]
    /\ subs = <<>>
    /\ lastCall = 0
    /\ lastDelivered = {}

FeedNext ==
    \/ \E id \in PriceIds : PythSubscribe(id)
    \/ BinanceSubscribe
    \/ \E h \in 1..MaxSubscriptions : Unsubscribe(h)
    \/ \E k \in 1..MaxSockets : PythOnOpen(k)
    \/ \E k \in 1..MaxSockets, id \in PriceIds : PythOnMessage(k, id)
    \/ \E k \in 1..MaxSockets : PythOnClose(k)
    \/ \E t \in 1..(MaxTimers + 1) : PythTimer(t)
    \/ PythDisconnect
    \/ \E k \in 1..MaxSockets : BinanceOnOpen(k)
    \/ \E k \in 1..MaxSockets, valid \in BOOLEAN : BinanceOnMessage(k, valid)
    \/ \E k \in 1..MaxSockets : BinanceOnClose(k)
    \/ BinanceTimer

\* ------------------------------------------------------- utils/probability.ts
\* Numbers are fixed-point: a quotient keeps the digits of its unit and drops
\* the rest, as a division followed by Math.trunc.
QuoT(a, b) == IF a >= 0 THEN a \div b ELSE -((-a) \div b)

RECURSIVE SqrtBetween(_, _, _)
SqrtBetween(n, lo, hi) ==
    IF lo >= hi THEN lo
    ELSE LET mid == (lo + hi + 1) \div 2 IN
         IF mid * mid <= n THEN SqrtBetween(n, mid, hi) ELSE SqrtBetween(n, lo, mid - 1)

\* Math.sqrt, to the unit.
Sqrt(n) == SqrtBetween(n, 0, 3 * Bp)

RECURSIVE SumOver(_, _)
SumOver(f, S) ==
    IF S = {} THEN 0
    ELSE LET i == CHOOSE x \in S : TRUE IN f[i] + SumOver(f, S \ {i})

\* probability.ts 8-12: the indices whose previous price is positive; the
\* others are skipped.
ValidReturns(prices) == {i \in 2..Len(prices) : prices[i - 1] > 0}

\* probability.ts 11: (prices[i] - prev) / prev
ReturnAt(prices, i) == QuoT((prices[i] - prices[i - 1]) * Bp, prices[i - 1])

\* probability.ts 16-22: avgAbs * 4 + stdDev * 2 + lastMove * 3
Blended(prices) ==
    LET idx == ValidReturns(prices)
        n == Cardinality(idx)
        returns == [i \in idx |-> ReturnAt(prices, i)]
        avgAbs == SumOver([i \in idx |-> Abs(returns[i])], idx) \div n
        mean == QuoT(SumOver(returns, idx), n)
        variance == SumOver([i \in idx |-> (returns[i] - mean) * (returns[i] - mean)], idx) \div n
        stdDev == Sqrt(variance)
        last == CHOOSE i \in idx : \A j \in idx : j <= i
        lastMove == Abs(returns[last])
    IN avgAbs * 4 + stdDev * 2 + lastMove * 3

ComputeRecentVolatilityUnclamped(prices) ==
    IF Len(prices) < 3 THEN DefaultVolatility
    ELSE IF ValidReturns(prices) = {} THEN DefaultVolatility
    ELSE Blended(prices)

\* probability.ts 4-24: computeRecentVolatility.
ComputeRecentVolatility(prices) ==
    IF Len(prices) < 3 THEN DefaultVolatility
    ELSE IF ValidReturns(prices) = {} THEN DefaultVolatility
    ELSE Max2(Min2(Blended(prices), VolatilityCeiling), VolatilityFloor)

\* probability.ts 52: Math.abs(targetPrice - currentPrice) / currentPrice
PriceDistance(price, target) ==
    (Abs(target - price) * Micro) \div price

\* probability.ts 55: Math.max(0.5, Math.min(1.2, 30 / secondsInFuture))
TimeFactor(secondsInFuture) ==
    Max2(500, Min2(1200, (30 * Milli) \div secondsInFuture))

\* probability.ts 58: Math.max(0.7, Math.min(1.3, 0.005 / recentVolatility))
VolatilityFactor(recentVolatility) ==
    Max2(700, Min2(1300, (50 * Milli) \div recentVolatility))

\* probability.ts 64-76: the distance tiers.
BaseLeverage(priceDistance) ==
    IF priceDistance < 2000 THEN 5000 + (priceDistance * 5000) \div 2000
    ELSE IF priceDistance < 5000 THEN 10000 + ((priceDistance - 2000) * 10000) \div 3000
    ELSE IF priceDistance < 8000 THEN 20000 + ((priceDistance - 5000) * 15000) \div 3000
    ELSE 35000 + Min2(15000, ((priceDistance - 8000) * 3) \div 10)

\* probability.ts 79: baseLeverage * timeFactor * volatilityFactor
AdjustedLeverage(price, target, secondsInFuture, recentVolatility) ==
    (((BaseLeverage(PriceDistance(price, target)) * TimeFactor(secondsInFuture))
        \div Milli) * VolatilityFactor(recentVolatility)) \div Milli

\* Math.round of a value counted in 1/1000.
Round(x) == (x + 500) \div Milli

CalculateLeverageUnclamped(price, target, secondsInFuture, recentVolatility) ==
    Round(AdjustedLeverage(Abs(price) + 1, target, secondsInFuture,
                           recentVolatility))

\* probability.ts 41-83: calculateLeverage.
CalculateLeverage(price, target, secondsInFuture, recentVolatility) ==
    IF price <= 0 \/ target <= 0 THEN MinLeverage
    ELSE Max2(MinLeverage, Min2(MaxLeverage,
            Round(AdjustedLeverage(price, target, secondsInFuture,
                                   recentVolatility))))

\* Argument sets.
PriceArgs == {-5, 0, 1000, 1001, 1003, 1006, 1010, 2000}
SecondsArgs == {1, 10, 30, 45, 600}
VolatilityArgs == {1, 20, 35, 50, 100, 600}
PriceListArgs == {-5, 0, 1000, 1001, 1010, 2000}

PriceLists == UNION {[1..n -> PriceListArgs] : n \in 0..MaxPrices}

NoResult == -1

FnIdle == [op |-> "none", currentPrice |-> 0, targetPrice |-> 0, secondsInFuture |-> 0,
           recentVolatility |-> 0, prices |-> <<>>, out |-> NoResult, calls |-> 0]

LeverageCalls ==
    {[FnIdle EXCEPT !.op = "calculateLeverage", !.currentPrice = c, !.targetPrice = t,
                    !.secondsInFuture = s, !.recentVolatility = v] :
        c \in PriceArgs, t \in PriceArgs, s \in SecondsArgs, v \in VolatilityArgs}

VolatilityCalls ==
    {[FnIdle EXCEPT !.op = "computeRecentVolatility", !.prices = ps] : ps \in PriceLists}

\* A caller evaluates calculateLeverage on the arguments.
CalculateLeverageCall ==
    /\ fn.op = "calculateLeverage"
    /\ fn.calls < MaxApplications
    /\ fn' = [fn EXCEPT !.calls = @ + 1,
                        !.out = CalculateLeverage(fn.currentPrice, fn.targetPrice,
                                                  fn.secondsInFuture, fn.recentVolatility)]
    /\ UNCHANGED <<mainVars, feedVars, page>>

\* A caller evaluates computeRecentVolatility on the price list.
ComputeRecentVolatilityCall ==
    /\ fn.op = "computeRecentVolatility"
    /\ fn.calls < MaxApplications
    /\ fn' = [fn EXCEPT !.calls = @ + 1, !.out = ComputeRecentVolatility(fn.prices)]
    /\ UNCHANGED <<mainVars, feedVars, page>>

ProbabilityNext == CalculateLeverageCall \/ ComputeRecentVolatilityCall

\* ------------------------------------------------------- shared price feed
\* page.tsx 17-20 and 70-134: the module-level price feed that the mounted
\* Home components share.
Components == 1..MaxComponents
FeedPriceId == "SOL"             \* MARKETS.SOL.pythPriceId
ClockStepMs == GraceMs \div 2

PageInit ==
    [sharedPriceService |-> 0,          \* 0: null, else the serial of the instance
     sharedPriceFeedUnsubscribe |-> 0,  \* 0: null, else the subscription it ends
     sharedPriceFeedSubscribers |-> 0,
     sharedPriceFeedCleanupTimer |-> 0, \* 0: null, else a timer id
     timers |-> {},                     \* pending timeouts: [id, remaining ms]
     mounted |-> {},                    \* components whose effect ran
     live |-> {},                       \* subscriptions made and not unsubscribed
     made |-> 0,                        \* subscribeToPriceUpdates calls so far
     zeroFor |-> 0,                     \* ms since the count last became 0
     cancelled |-> FALSE]               \* a mount has cleared a pending teardown

KeepTimeout(timers, id) == timers

\* clearTimeout(id).
ClearTimeout(timers, id) == {t \in timers : t.id # id}

\* setTimeout: an id no pending timer has.
NewPageTimer(timers) ==
    CHOOSE n \in 1..(MaxPendingTimers + 1) : \A t \in timers : t.id # n

\* page.tsx 75-80: the effect counts the component and cancels a pending
\* teardown.
Counted(pg, c) ==
    [pg EXCEPT !.sharedPriceFeedSubscribers = @ + 1,
               !.mounted = @ \cup {c},
               !.timers = IF pg.sharedPriceFeedCleanupTimer # 0
                          THEN ClearTimeout(@, pg.sharedPriceFeedCleanupTimer) ELSE @,
               !.sharedPriceFeedCleanupTimer = 0,
               !.cancelled = @ \/ pg.sharedPriceFeedCleanupTimer # 0,
               !.zeroFor = 0]

\* page.tsx 90-119: ensurePriceFeed creates the service when there is none
\* and subscribes when there is no subscription.
EnsurePriceFeed(pg) ==
    LET h == pg.made + 1
        withService == IF pg.sharedPriceService = 0
                       THEN [pg EXCEPT !.sharedPriceService = h] ELSE pg IN
    IF pg.sharedPriceFeedUnsubscribe = 0
    THEN [withService EXCEPT !.sharedPriceFeedUnsubscribe = h,
                             !.live = @ \cup {h},
                             !.made = h]
    ELSE withService

\* The service after ensurePriceFeed: subscribeToPriceUpdates (part_004
\* 252-264) on the new or the existing instance.
EnsuredService(pg, p) ==
    LET inst == IF pg.sharedPriceService = 0 THEN NewPythWebSocketService ELSE p
        sub == [inst EXCEPT !.priceCallbacks[FeedPriceId] = pg.made + 1] IN
    IF pg.sharedPriceFeedUnsubscribe # 0 THEN inst
    ELSE IF ReadyState(sub) = "open" THEN sub
    ELSE PythConnect(sub)

\* page.tsx 70-119: the effect of component c runs (mount).
Mount(c) ==
    /\ c \notin page.mounted
    /\ page.sharedPriceFeedUnsubscribe = 0 => page.made < MaxFeedSubscriptions
    /\ (page.sharedPriceService # 0 /\ page.sharedPriceFeedUnsubscribe = 0
           /\ ReadyState(pyth) # "open") => Len(pyth.sockets) < MaxSockets
    /\ page' = EnsurePriceFeed(Counted(page, c))
    /\ pyth' = EnsuredService(page, pyth)
    /\ UNCHANGED <<mainVars, fn, binance, subs, lastCall, lastDelivered>>

\* page.tsx 121-133: the cleanup of the effect of component c (unmount).
Unmount(c) ==
    /\ c \in page.mounted
    /\ LET n == Max2(0, page.sharedPriceFeedSubscribers - 1)
           t == NewPageTimer(page.timers) IN
         IF n = 0
         THEN /\ Cardinality(page.timers) < MaxPendingTimers
              /\ page' = [page EXCEPT !.sharedPriceFeedSubscribers = n,
                                      !.mounted = @ \ {c},
                                      !.sharedPriceFeedCleanupTimer = t,
                                      !.timers = @ \cup {[id |-> t, remaining |-> GraceMs]},
                                      !.zeroFor = 0]
         ELSE page' = [page EXCEPT !.sharedPriceFeedSubscribers = n,
                                   !.mounted = @ \ {c}]
    /\ UNCHANGED <<mainVars, fn, feedVars>>

\* Time passes: pending timeouts come closer and the count stays where it is.
PageClock ==
    /\ \/ \E t \in page.timers : t.remaining > 0
       \/ page.sharedPriceFeedSubscribers = 0 /\ page.made > 0 /\ page.zeroFor < GraceMs
    /\ page' = [page EXCEPT
                  !.timers = {[t EXCEPT !.remaining = Max2(0, @ - ClockStepMs)] : t \in @},
                  !.zeroFor = IF page.sharedPriceFeedSubscribers = 0 /\ page.made > 0
                              THEN Min2(GraceMs, @ + ClockStepMs) ELSE @]
    /\ UNCHANGED <<mainVars, fn, feedVars>>

\* page.tsx 125-131: the timeout callback tears the feed down.
CleanupTimer(t) ==
    /\ t \in page.timers
    /\ t.remaining = 0
    /\ page' = [page EXCEPT !.live = @ \ {page.sharedPriceFeedUnsubscribe},
                            !.sharedPriceFeedUnsubscribe = 0,
                            !.sharedPriceService = 0,
                            !.sharedPriceFeedCleanupTimer = 0,
                            !.timers = @ \ {t}]
    /\ pyth' = IF page.sharedPriceService = 0 THEN pyth
               ELSE PythDisconnected(IF page.sharedPriceFeedUnsubscribe # 0
                                     THEN PythUnsubscribe(pyth, FeedPriceId) ELSE pyth)
    /\ UNCHANGED <<mainVars, fn, binance, subs, lastCall, lastDelivered>>

SharedFeedNext ==
    \/ \E c \in Components : Mount(c)
    \/ \E c \in Components : Unmount(c)
    \/ PageClock
    \/ \E t \in page.timers : CleanupTimer(t)
    \/ \E k \in 1..MaxSockets : PythOnOpen(k)
    \/ \E k \in 1..MaxSockets : PythOnClose(k)
    \/ \E t \in 1..(MaxTimers + 1) : PythTimer(t)

\* ------------------------------------------------------------------------ model
StoreInit ==
    /\ users = [w \in Wallets |-> NewUser]
    /\ calls = {}
    /\ nextCid = 1
    /\ now = 0
    /\ currentPrice = 0
    /\ positions = <<>>
    /\ notifications = <<>>
    /\ stats = [totalWins |-> 0, totalLosses |-> 0, realizedPnL |-> 0, totalVolume |-> 0]
    /\ isSettling = FALSE
    /\ isDriftAccountReady = FALSE
    /\ effectPending = TRUE
    /\ sweeps = <<>>
    /\ hist = [credits |-> [x \in Wallets \X TxSigs |-> 0],
               sent |-> {}, confirmed |-> {}, closes |-> {}, failedBets |-> {}, refunded |-> {}, closeFailed |-> {},
               resolves |-> [i \in 1..(MaxCalls + 1) |-> 0]]

Init ==
    /\ StoreInit
    /\ FeedInit
    /\ fn = FnIdle
    /\ page = PageInit

Next ==
    \/ \E w \in Wallets, tx \in TxSigs : \E e \in ExpectedAmounts(tx) : VerifyDepositStart(w, tx, e)
    \/ \E w \in Wallets, tx \in TxSigs : VerifyDepositDuplicate(w, tx)
    \/ \E c \in calls, found \in BOOLEAN : VerifyDepositFinish(c, found)
    \/ \E w \in Wallets, a \in WithdrawAmounts : RequestWithdrawalInsufficient(w, a)
    \/ \E w \in Wallets, a \in WithdrawAmounts : RequestWithdrawalStart(w, a)
    \/ \E c \in calls, o \in {"ok", "notSent", "unconfirmed"} : RequestWithdrawalFinish(c, o)
    \/ \E c \in calls : Release(c)
    \/ \E w \in ConnectedWallets, a \in BetAmounts : PlaceBetInsufficient(w, a)
    \/ \E w \in ConnectedWallets, t \in Targets, l \in Leverages, a \in BetAmounts :
          HandleGridTap(w, t, l, a)
    \/ \E c \in calls, ok \in BOOLEAN : PlaceBetFinish(c, ok)
    \/ \E p \in Prices : PriceUpdate(p)
    \/ ExpiryTimer
    \/ Tick
    \/ DriftReady
    \/ SettlementEffect
    \/ \E k \in 1..MaxSweeps : SweepResolve(k)
    \/ \E k \in 1..MaxSweeps, o \in {"closed", "none", "throw"} : SweepClose(k, o)
    \/ \E k \in 1..MaxSweeps : SweepRelease(k)
    \/ \E orders \in SUBSET {1} : SyncPositions(orders)

Spec == Init /\ [][Next]_vars

\* page.tsx 140-158: setInterval fires the expiry timer every 300 ms for as
\* long as a position is active, and the clock keeps running.
FairSpec == Spec /\ WF_vars(ExpiryTimer) /\ WF_vars(Tick)

\* page.tsx 191-272: React runs the settlement effect after every render in
\* which a dependency changed, every resolveBet call returns, and the 500 ms
\* pauses of the sweep end.
FairSettlementSpec ==
    /\ Spec
    /\ WF_vars(SettlementEffect)
    /\ WF_vars(\E k \in 1..MaxSweeps : SweepResolve(k))
    /\ WF_vars(\E k \in 1..MaxSweeps : \E outcome \in {"closed", "none", "throw"} :
                   SweepClose(k, outcome))
    /\ WF_vars(\E k \in 1..MaxSweeps : SweepRelease(k))

\* The price services on their own: subscriptions, socket events and timers.
FeedSpec == Init /\ [][FeedNext]_vars

\* The Home components and the price feed they share.
SharedFeedSpec == Init /\ [][SharedFeedNext]_vars

\* The functions of utils/probability.ts applied to drawn arguments.
ProbabilityInit ==
    /\ StoreInit
    /\ FeedInit
    /\ fn \in LeverageCalls \cup VolatilityCalls
    /\ page = PageInit

ProbabilitySpec == ProbabilityInit /\ [][ProbabilityNext]_vars

\* ======================================================================= claims
\* The position of the next state that stems from the same tap as ps[i]
\* (positions are only ever prepended, so it sits at the same distance from
\* the end).
Same(i) == Len(positions') - (Len(positions) - i)

Resolved(pos) == pos.status = "won" \/ pos.status = "lost"

BetsOf(w) == users[w].bets

\* ----------------------------------------------------------------------- C1
C1_PayoutOnce ==
    \A w \in Wallets : \A i \in 1..Len(BetsOf(w)) : BetsOf(w)[i].payouts <= 1

C1_SettledStays ==
    /\ Len(positions') >= Len(positions)
    /\ \A i \in 1..Len(positions) :
          positions[i].settledOnChain => positions'[Same(i)].settledOnChain

\* C1: at-most-once settlement.  No step turns settledOnChain of a position
\* from true back to false (so it goes false -> true at most once), and the
\* win payout of resolveBet is applied at most once to any bet record, however
\* price samples, timer ticks, effect runs and resolveBet failures and
\* retries interleave.
C1_AtMostOnceSettlement == [](C1_PayoutOnce) /\ [][C1_SettledStays]_vars

\* A won bet was paid out, its venue close failed, and the sweep has called
\* resolveBet for the position again.
C1_Witness ==
    \E i \in 1..Len(positions) :
        /\ positions[i].status = "won"
        /\ positions[i].settlementAttempts >= 2
        /\ hist.resolves[positions[i].by] >= 3
        /\ \E k \in 1..Len(BetsOf(positions[i].userId)) :
              /\ BetsOf(positions[i].userId)[k].betId = positions[i].id
              /\ BetsOf(positions[i].userId)[k].payouts = 1

\* ----------------------------------------------------------------------- C2
\* C2: balance non-negativity.  Every account's balance is >= 0 in every
\* reachable state, for every interleaving of verifyDeposit, placeBet,
\* requestWithdrawal (with their refund paths) and resolveBet.
C2_BalanceNonNegative == \A w \in Wallets : users[w].balance >= 0

\* Bets have used up a balance exactly, after a refund was credited.
C2_Witness ==
    \E w \in Wallets :
        /\ users[w].balance = 0
        /\ users[w].totalBets > 0
        /\ Len(users[w].bets) >= 2

\* ----------------------------------------------------------------------- C3
\* C3: deposit replay is rejected system-wide.  A txSignature is credited at
\* most once over all accounts.
C3_CreditedOnceSystemWide ==
    \A tx \in TxSigs :
        /\ \A w \in Wallets : hist.credits[<<w, tx>>] <= 1
        /\ Cardinality({w \in Wallets : hist.credits[<<w, tx>>] > 0}) <= 1

\* ----------------------------------------------------------------------- C4
\* C4: same-account deposit replay.  Once verifyDeposit has succeeded for
\* (wallet, txSignature), no later verifyDeposit call for the same pair gets
\* past the 'Deposit already credited' check, and the pair is credited once.
C4_SameAccountReplayRejected ==
    /\ \A c \in CallsOf("verifyDeposit") : ~c.afterCredit
    /\ \A w \in Wallets, tx \in TxSigs : hist.credits[<<w, tx>>] <= 1

\* ----------------------------------------------------------------------- C5
\* C5: withdrawal atomicity.  When requestWithdrawal has returned failure and
\* no other operation wrote the account since the call began, balance and
\* totalWithdrawals equal their values from before the call.
C5_WithdrawalAtomicity ==
    \A c \in CallsOf("requestWithdrawal") :
        (c.pc = "failed" /\ c.clean) =>
            /\ users[c.wallet].balance = c.preBalance
            /\ users[c.wallet].totalWithdrawals = c.preTotal

\* A withdrawal was debited, its transfer failed, and it has returned.
C5_Witness ==
    \E c \in CallsOf("requestWithdrawal") :
        c.pc = "failed" /\ c.clean /\ c.preBalance >= c.amount

\* ----------------------------------------------------------------------- C6
C6_NoPositionOfFailedBet ==
    \A i \in 1..Len(positions) : positions[i].by \notin hist.failedBets

C6_ReturnStep ==
    \A c \in CallsOf("placeBet") :
        (c.pc = "trade" /\ \E d \in calls' : d.cid = c.cid /\ d.pc = "failed") =>
            /\ users'[c.wallet].balance = c.preBalance
            /\ users'[c.wallet].totalBets = c.preTotal

\* C6 as stated: in the step in which placeBet returns failure after a failed
\* executeTrade, balance and totalBets equal their values from before the
\* call, whatever else ran during the call; and no position of a failed
\* placement is ever in the position store.
C6_PreCallValuesAtReturn == [](C6_NoPositionOfFailedBet) /\ [][C6_ReturnStep]_vars

\* C6 amended: when placeBet has returned failure because executeTrade failed
\* and no other operation wrote the account since the call began, balance
\* and totalBets equal their values from before the call; and no position
\* stemming from a failed placement is ever in the position store.
C6_FailedBetCompensated ==
    /\ \A c \in CallsOf("placeBet") :
          (c.pc = "failed" /\ c.clean) =>
              /\ users[c.wallet].balance = c.preBalance
              /\ users[c.wallet].totalBets = c.preTotal
    /\ C6_NoPositionOfFailedBet

\* A bet was debited, executeTrade failed, and placeBet has returned.
C6_Witness ==
    \E c \in CallsOf("placeBet") :
        c.pc = "failed" /\ c.clean /\ c.cid \in hist.failedBets

\* ----------------------------------------------------------------------- C7
C7_SkippedTriggerIsNoOp ==
    (sweeps # <<>> /\ effectPending /\ ~effectPending') =>
        /\ sweeps' = sweeps
        /\ positions' = positions
        /\ users' = users
        /\ hist' = hist

\* C7: settlement mutual exclusion.  At most one sweep is in flight at any
\* time, and a run of the settlement effect while a sweep is in flight calls
\* no resolveBet, updates no position and starts or queues no sweep.
C7_SettlementMutualExclusion ==
    [](Len(sweeps) <= 1) /\ [][C7_SkippedTriggerIsNoOp]_vars

\* A sweep is in flight, a position outside it awaits settlement, and the
\* effect has run (and returned) since the sweep began.
C7_Witness ==
    /\ Len(sweeps) = 1
    /\ isSettling
    /\ ~effectPending
    /\ \E i \in 1..Len(positions) :
          /\ NeedsSettlement(positions[i])
          /\ \A j \in 1..Len(sweeps[1].items) : sweeps[1].items[j].by # positions[i].by

\* ----------------------------------------------------------------------- C8
C8_AttemptsStep ==
    /\ Len(positions') >= Len(positions)
    /\ \A i \in 1..Len(positions) :
        LET p == positions[i]
            q == positions'[Same(i)] IN
        /\ q.settlementAttempts >= p.settlementAttempts
        /\ (q.settlementAttempts > p.settlementAttempts => ~p.settledOnChain)
        /\ (p.settlementAttempts = MaxAttempts =>
               /\ hist'.resolves[p.by] = hist.resolves[p.by]
               /\ ~q.settledOnChain)

\* C8: bounded settlement retries.  settlementAttempts only increases while
\* settledOnChain is false, never exceeds 5, and once it is 5 no resolveBet
\* call is issued for the position again and the position stays in the store
\* with settledOnChain = false.
C8_BoundedRetries ==
    /\ [](\A i \in 1..Len(positions) : positions[i].settlementAttempts <= MaxAttempts)
    /\ [][C8_AttemptsStep]_vars

\* ----------------------------------------------------------------------- C9
C9_StatusStep ==
    /\ Len(positions') >= Len(positions)
    /\ \A i \in 1..Len(positions) :
        LET p == positions[i]
            q == positions'[Same(i)] IN
        /\ q.by = p.by
        /\ Resolved(p) => (q.status = p.status /\ q.realizedPnL = p.realizedPnL)
        /\ p.status = "active" => q.status \in {"active", "won", "lost"}

\* C9: position state machine.  A position's status only goes from active to
\* won or to lost; once it is won or lost no step (a price sample, the expiry
\* timer, the venue order sync, the settlement sweep) changes its status or
\* its realizedPnL.
C9_PositionStateMachine == [][C9_StatusStep]_vars

\* A position was won in its zone, another is still active, and a later
\* price sample outside the zone has been processed.
C9_Witness ==
    \E i, j \in 1..Len(positions) :
        /\ positions[i].status = "won"
        /\ positions[i].resolvedPrice # currentPrice
        /\ positions[j].status = "active"

\* ---------------------------------------------------------------------- C10
\* C10 as stated: status = active if and only if settledOnChain = false.
C10_ActiveIffUnsettled ==
    \A i \in 1..Len(positions) :
        (positions[i].status = "active") <=> ~positions[i].settledOnChain

\* C10 amended: a position with settledOnChain = true shares its id with a
\* position that is won or lost (with distinct ids: a settled position is
\* never active).  The converse fails: a won or lost position keeps
\* settledOnChain = false until a sweep settles it.
C10_SettledOnlyWhenResolved ==
    \A i \in 1..Len(positions) :
        positions[i].settledOnChain =>
            \E j \in 1..Len(positions) :
                positions[j].id = positions[i].id /\ Resolved(positions[j])

\* One position is settled while another, resolved, is not.
C10_Witness ==
    \E i, j \in 1..Len(positions) :
        /\ positions[i].settledOnChain
        /\ Resolved(positions[j]) /\ ~positions[j].settledOnChain

\* ---------------------------------------------------------------------- C11
\* The price lies in the zone of the position.
InZone(pos, price) ==
    /\ price >= Min2(pos.zoneLowerBound, pos.zoneUpperBound)
    /\ price <= Max2(pos.zoneLowerBound, pos.zoneUpperBound)

C11_SampleStep ==
    \A price \in Prices :
        PriceUpdate(price) =>
            \A i \in 1..Len(positions) :
                (positions[i].status = "active" /\ InZone(positions[i], price)) =>
                    positions'[Same(i)].status = "won"

\* C11: a zone hit wins on any price sample.  Whenever checkWins processes a
\* price sample, every active position whose zone contains the price is won
\* after that evaluation, also when the sample arrives before the expiry
\* time of the position.
C11_ZoneHitWinsOnAnySample == [][C11_SampleStep]_vars

\* ---------------------------------------------------------------------- C12
C12_EvaluationStep ==
    ((\E price \in Prices : PriceUpdate(price)) \/ ExpiryTimer) =>
        \A i \in 1..Len(positions) :
            (positions[i].status = "active" /\ now >= positions[i].expiryTime) =>
                positions'[Same(i)].status =
                    IF InZone(positions[i], currentPrice') THEN "won" ELSE "lost"

ActiveBy(b) ==
    \E i \in 1..Len(positions) : positions[i].by = b /\ positions[i].status = "active"

\* ... and its expiry time lies within the span the clock of the model covers.
ActiveExpiring(b) ==
    \E i \in 1..Len(positions) :
        /\ positions[i].by = b
        /\ positions[i].status = "active"
        /\ positions[i].expiryTime <= MaxTicks * SlotMs

\* C13: expiry liveness without price arrival.  With a positive price
\* observed (no position exists before one is), every active position
\* eventually leaves the active state after its expiry time, also when no
\* further price sample arrives, given that the 300 ms timer keeps firing.
C13_ExpiryLiveness ==
    \A b \in 1..MaxCalls : ActiveExpiring(b) ~> ~ActiveBy(b)

\* A position was resolved at its expiry time with the price that was
\* already known when its bet was placed.
C13_Witness ==
    \E i \in 1..Len(positions) :
        /\ positions[i].status # "active"
        /\ positions[i].resolvedAt >= positions[i].expiryTime
        /\ positions[i].resolvedPrice = positions[i].entryPrice
        /\ currentPrice = positions[i].entryPrice

\* ---------------------------------------------------------------------- C14
\* The bet of wallet w with index k gets its result in this step.
BetResolvedNow(w, k, result) ==
    /\ k \in 1..Len(users[w].bets)
    /\ Len(users'[w].bets) = Len(users[w].bets)
    /\ users[w].bets[k].result = "none"
    /\ users'[w].bets[k].result = result

C14_PayoutStep ==
    \A w \in Wallets : \A k \in 1..Len(users[w].bets) :
        BetResolvedNow(w, k, "win") =>
            /\ users'[w].balance =
                  users[w].balance + users[w].bets[k].amount + users'[w].bets[k].pnl
            /\ users'[w].totalWinnings = users[w].totalWinnings + users'[w].bets[k].pnl

\* C14: win payout.  The resolveBet call that settles a won position adds
\* exactly betAmount + realizedPnL to the owner's balance and exactly
\* realizedPnL to totalWinnings, for every realizedPnL a won position can
\* have.
C14_WinPayout == [][C14_PayoutStep]_vars

\* ---------------------------------------------------------------------- C15
C15_LostPnL ==
    \A i \in 1..Len(positions) :
        positions[i].status = "lost" =>
            /\ positions[i].realizedPnL = -positions[i].betAmount
            /\ ~InZone(positions[i], positions[i].resolvedPrice)
            /\ positions[i].resolvedAt >= positions[i].expiryTime

C15_LossSettlementStep ==
    \A w \in Wallets : \A k \in 1..Len(users[w].bets) :
        BetResolvedNow(w, k, "loss") =>
            /\ users'[w].balance = users[w].balance
            /\ users'[w].totalWinnings = users[w].totalWinnings
            /\ users'[w].bets[k].pnl = -users[w].bets[k].amount

\* C15: loss outcome.  A position is lost only by expiring with the price
\* outside its zone and then has realizedPnL = -betAmount; the resolveBet
\* call that settles a loss leaves the owner's balance and totalWinnings as
\* they were.
C15_LossOutcome == [](C15_LostPnL) /\ [][C15_LossSettlementStep]_vars

\* A lost position has been settled through resolveBet.
C15_Witness ==
    \E i \in 1..Len(positions) :
        /\ positions[i].status = "lost"
        /\ positions[i].settledOnChain
        /\ \E k \in 1..Len(BetsOf(positions[i].userId)) :
              /\ BetsOf(positions[i].userId)[k].by = positions[i].by
              /\ BetsOf(positions[i].userId)[k].result = "loss"

\* ---------------------------------------------------------------------- C16
\* The deposits credited to w (each credit of a signature adds its amount).
RECURSIVE CreditedDeposits(_, _)
CreditedDeposits(w, txs) ==
    IF txs = {} THEN 0
    ELSE LET tx == CHOOSE t \in txs : TRUE IN
         hist.credits[<<w, tx>>] * ChainAmount(tx) + CreditedDeposits(w, txs \ {tx})

\* Over the bets b[i..]: the win payouts less the debits that were not refunded.
RECURSIVE BetsNet(_, _)
BetsNet(b, i) ==
    IF i > Len(b) THEN 0
    ELSE b[i].payouts * (b[i].amount + b[i].pnl)
         - (IF b[i].by \in hist.failedBets THEN 0 ELSE b[i].amount)
         + BetsNet(b, i + 1)

\* The debit of the withdrawal record was refunded by the catch block.
WithdrawalRefunded(rec) == rec.by \in hist.refunded

\* Over the withdrawals r[i..]: the debits that were not refunded.
RECURSIVE WithdrawalDebits(_, _)
WithdrawalDebits(r, i) ==
    IF i > Len(r) THEN 0
    ELSE (IF WithdrawalRefunded(r[i]) THEN 0 ELSE r[i].amount) + WithdrawalDebits(r, i + 1)

ExpectedBalance(w) ==
    CreditedDeposits(w, TxSigs) + BetsNet(users[w].bets, 1)
        - WithdrawalDebits(users[w].withdrawals, 1)

\* C16: per-account atomicity (no lost updates).  Under every interleaving
\* of verifyDeposit, placeBet, requestWithdrawal and resolveBet calls on an
\* account, its balance equals the initial balance (0) plus the credited
\* deposits and win payouts minus the bet and withdrawal debits that were
\* not refunded.
C16_NoLostUpdates == \A w \in Wallets : users[w].balance = ExpectedBalance(w)

\* ---------------------------------------------------------------------- C17
\* C17: a position is marked settled only after the venue confirmed a close
\* order for it: no position is settled while no venue close was executed
\* for it.
C17_SettledOnlyAfterVenueClose ==
    \A i \in 1..Len(positions) :
        positions[i].settledOnChain => positions[i].by \in hist.closes

\* ---------------------------------------------------------------------- C18
C18_RetryStep ==
    \A k \in 1..Len(sweeps) :
        (/\ SweepResolve(k)
         /\ sweeps[k].items[sweeps[k].idx].by \in hist.closeFailed
         /\ sweeps[k].items[sweeps[k].idx].settlementAttempts < MaxAttempts) =>
            sweeps'[k].pc = "closing"

\* C18: settlement retries re-attempt the venue close.  When the venue close
\* has failed for a resolved position, each later resolveBet call of a sweep
\* for that position (while settlementAttempts < 5) goes on to issue the
\* venue close again.
C18_RetryReattemptsClose == [][C18_RetryStep]_vars

\* ---------------------------------------------------------------------- C19
\* C19: a withdrawal whose external transfer failed ends with the status
\* failed.  After requestWithdrawal has returned failure, no withdrawal
\* record created by that call has the status pending or completed.
C19_FailedWithdrawalMarkedFailed ==
    \A w \in Wallets : \A i \in 1..Len(users[w].withdrawals) :
        users[w].withdrawals[i].by \in hist.refunded =>
            users[w].withdrawals[i].status \notin {"pending", "completed"}

\* ---------------------------------------------------------------------- C20
\* C20: a withdrawal record has the status completed only after the external
\* transfer of its call was sent and confirmed.
C20_CompletedOnlyAfterConfirmation ==
    \A w \in Wallets : \A i \in 1..Len(users[w].withdrawals) :
        users[w].withdrawals[i].status = "completed" =>
            /\ users[w].withdrawals[i].by \in hist.sent
            /\ users[w].withdrawals[i].by \in hist.confirmed

\* ---------------------------------------------------------------------- C21
\* A call of the given kind gets past its balance check in this step.
Accepted(kind) == {c \in calls' : c.kind = kind /\ \A d \in calls : d.cid # c.cid}

C21_FailFastStep ==
    /\ \A c \in Accepted("placeBet") \cup Accepted("requestWithdrawal") :
          users[c.wallet].balance >= c.amount
    /\ \A w \in Wallets :
          (\/ Len(users'[w].bets) > Len(users[w].bets)
           \/ Len(users'[w].withdrawals) > Len(users[w].withdrawals)
           \/ users'[w].totalBets > users[w].totalBets
           \/ users'[w].totalWithdrawals > users[w].totalWithdrawals) =>
              \E c \in Accepted("placeBet") \cup Accepted("requestWithdrawal") :
                  c.wallet = w /\ users[w].balance >= c.amount
    /\ \A w \in Wallets : \A amount \in BetAmounts :
          PlaceBetInsufficient(w, amount) =>
              users' = users /\ calls' = calls /\ hist' = hist /\ positions' = positions

\* C21: insufficient balance fails fast.  A placeBet or requestWithdrawal
\* call with an amount greater than the current balance of the account
\* starts no venue open and no transfer and leaves the balance, the totals
\* and the bets and withdrawals lists as they were: debits, new records and
\* external calls only come from calls whose amount the balance covers.
C21_InsufficientBalanceFailsFast == [][C21_FailFastStep]_vars

\* placeBet has been reached with a positive balance below the bet amount
\* (the only 'bet failed' notification so far came from it), after a
\* withdrawal took the difference.
C21_Witness ==
    /\ Notif("error", "BetFailed", 0) \in DOMAIN notifications
    /\ hist.failedBets = {}
    /\ \E w \in ConnectedWallets :
          /\ users[w].bets = <<>>
          /\ users[w].withdrawals # <<>>
          /\ users[w].balance > 0
          /\ \E amount \in BetAmounts : users[w].balance < amount

\* ---------------------------------------------------------------------- C22
C22_LookupStep ==
    \A c \in CallsOf("verifyDeposit") :
        VerifyDepositFinish(c, TRUE) =>
            IF AmountMismatch(ChainAmount(c.tx), c.amount)
            THEN users' = users /\ hist' = hist
            ELSE /\ users'[c.wallet].balance =
                        users[c.wallet].balance + ChainAmount(c.tx)
                 /\ users'[c.wallet].totalDeposits =
                        users[c.wallet].totalDeposits + ChainAmount(c.tx)
                 /\ DepositAlreadyCredited(users'[c.wallet], c.tx)

\* C22: amount mismatch.  When the chain lookup of verifyDeposit has found
\* the transfer, the deposit is rejected without a balance change or a
\* deposit record if the on-chain amount differs from the claimed amount by
\* more than 1 % of the claimed amount, and accepted otherwise; an accepted
\* deposit increases balance and totalDeposits by the on-chain amount.
C22_AmountMismatch == [][C22_LookupStep]_vars

\* ---------------------------------------------------------------------- C23
\* Sweep k handles a failure of its current item in this step: the resolveBet
\* call is rejected, or the venue close of an accepted call throws.
ItemFails(k) ==
    LET pos == sweeps[k].items[sweeps[k].idx] IN
    \/ SweepResolve(k) /\ ResolveBetCheck(GetUser(pos.userId), pos.id) # "ok"
    \/ SweepClose(k, "throw")

C23_FailureStep ==
    \A k \in 1..Len(sweeps) :
        ItemFails(k) =>
            LET sw == sweeps[k]
                pos == sw.items[sw.idx] IN
            /\ Len(positions') = Len(positions)
            /\ \A i \in 1..Len(positions) :
                  IF positions[i].by = pos.by
                  THEN positions'[i] = [positions[i] EXCEPT
                           !.settlementAttempts = pos.settlementAttempts + 1]
                  ELSE positions'[i] = positions[i]
            /\ Len(sweeps') = Len(sweeps)
            /\ sweeps'[k].items = sw.items
            /\ IF sw.idx < Len(sw.items)
               THEN sweeps'[k].idx = sw.idx + 1 /\ sweeps'[k].pc = "resolve"
               ELSE sweeps'[k].pc = "release"

C23_ReleaseStep ==
    \A k \in 1..Len(sweeps) :
        (sweeps[k].pc = "release" /\ Len(sweeps') < Len(sweeps)) => ~isSettling'

\* C23: a settlement failure never aborts the sweep.  When resolveBet fails
\* or throws for one position, only that position's settlementAttempts is
\* incremented, the sweep goes on with the next position of its snapshot,
\* and the isSettling guard is released when the sweep ends.
C23_FailureDoesNotAbortSweep == [][C23_FailureStep /\ C23_ReleaseStep]_vars

\* ---------------------------------------------------------------------- C24
\* The position of call b awaits settlement while the venue client is ready.
AwaitsSettlement(b) ==
    /\ isDriftAccountReady
    /\ \E i \in 1..Len(positions) :
          /\ positions[i].by = b
          /\ Resolved(positions[i])
          /\ positions[i].txSignature # NoSig
          /\ ~positions[i].settledOnChain

SettledOrGivenUp(b) ==
    \E i \in 1..Len(positions) :
        /\ positions[i].by = b
        /\ \/ positions[i].settledOnChain
           \/ positions[i].settlementAttempts = MaxAttempts

FailureSurfaced(pos) ==
    Notif("error", "SettlementFailed", pos.id) \in DOMAIN notifications

\* C25: a position whose settlementAttempts has reached 5 has an error
\* notification naming it in the notification list, and it is in the store as
\* won or lost with settledOnChain = false.
C25_PermanentFailureSurfaced ==
    \A i \in 1..Len(positions) :
        positions[i].settlementAttempts >= MaxAttempts =>
            /\ FailureSurfaced(positions[i])
            /\ Resolved(positions[i])
            /\ ~positions[i].settledOnChain

\* --------------------------------------------------------------------- C28
\* C28: the bets of one account have pairwise different betIds and the
\* positions of the store have pairwise different ids.
C28_UniqueIds ==
    /\ \A w \in Wallets : \A i, j \in 1..Len(BetsOf(w)) :
           i # j => BetsOf(w)[i].betId # BetsOf(w)[j].betId
    /\ \A i, j \in 1..Len(positions) :
           i # j => positions[i].id # positions[j].id

\* --------------------------------------------------------------------- C29
\* The step is a step of a verifyDeposit, placeBet, requestWithdrawal or
\* resolveBet call for wallet w.
ServerCallStep(w) ==
    \/ \E tx \in TxSigs : \E e \in ExpectedAmounts(tx) : VerifyDepositStart(w, tx, e)
    \/ \E tx \in TxSigs : VerifyDepositDuplicate(w, tx)
    \/ \E c \in calls, found \in BOOLEAN : c.wallet = w /\ VerifyDepositFinish(c, found)
    \/ \E a \in WithdrawAmounts : RequestWithdrawalInsufficient(w, a)
    \/ \E a \in WithdrawAmounts : RequestWithdrawalStart(w, a)
    \/ \E c \in calls, o \in {"ok", "notSent", "unconfirmed"} :
          c.wallet = w /\ RequestWithdrawalFinish(c, o)
    \/ \E a \in BetAmounts : PlaceBetInsufficient(w, a)
    \/ \E t \in Targets, l \in Leverages, a \in BetAmounts : HandleGridTap(w, t, l, a)
    \/ \E c \in calls, ok \in BOOLEAN : c.wallet = w /\ PlaceBetFinish(c, ok)
    \/ \E k \in 1..Len(sweeps) :
          /\ sweeps[k].items[sweeps[k].idx].userId = w
          /\ \/ SweepResolve(k)
             \/ \E o \in {"closed", "none", "throw"} : SweepClose(k, o)

C29_CallStep ==
    \A w \in Wallets :
        ServerCallStep(w) => \A v \in Wallets \ {w} : users'[v] = users[v]

\* C29: a step of a verifyDeposit, placeBet, requestWithdrawal or resolveBet
\* call for one wallet leaves every field of every other wallet's account
\* unchanged, whatever calls of other wallets are in flight.
C29_AccountsIndependent == [][C29_CallStep]_vars

\* placeBet of w1 has debited w1 and is in flight while the account of w2
\* holds a credited deposit.
C29_Witness ==
    /\ \E c \in calls : c.wallet = "w1" /\ c.kind = "placeBet"
    /\ users["w1"].bets # <<>>
    /\ users["w2"].balance > 0
    /\ users["w2"].deposits # <<>>

\* --------------------------------------------------------------------- C30
\* The step is a call of unsubscribe function h directly after a call of it.
RepeatedUnsubscribe(h) == lastCall = h /\ Unsubscribe(h)

C30_RepeatStep ==
    /\ \A h \in 1..Len(subs) :
          RepeatedUnsubscribe(h) => pyth' = pyth /\ binance' = binance
    /\ \A h \in lastDelivered' : subs[h].calls = 0

C26_Result ==
    (fn.op = "calculateLeverage" /\ fn.calls >= 1) =>
        /\ fn.out \in MinLeverage..MaxLeverage
        /\ (fn.currentPrice <= 0 \/ fn.targetPrice <= 0) => fn.out = MinLeverage

C26_CallStep ==
    (CalculateLeverageCall /\ fn.calls >= 1) => fn'.out = fn.out

C27_VolatilityBounds ==
    (fn.op = "computeRecentVolatility" /\ fn.calls >= 1) =>
        /\ fn.out \in VolatilityFloor..VolatilityCeiling
        /\ (Len(fn.prices) < 3 \/ \A i \in 2..Len(fn.prices) : fn.prices[i - 1] <= 0)
              => fn.out = DefaultVolatility
        /\ (Len(fn.prices) >= 4 /\ fn.prices[1] <= 0)
              => fn.out = ComputeRecentVolatility(Tail(fn.prices))

\* A list that starts with a non-positive price and whose remaining returns
\* give a value strictly between the floor and the ceiling.
C27_Witness ==
    /\ fn.op = "computeRecentVolatility" /\ fn.calls >= 1
    /\ Len(fn.prices) >= 4 /\ fn.prices[1] <= 0
    /\ ValidReturns(fn.prices) # {}
    /\ fn.out > VolatilityFloor /\ fn.out < VolatilityCeiling

\* --------------------------------------------------------------------- C31
\* C31: the ledger is updated for a resolved bet only when the venue close of
\* that attempt succeeded: a bet whose venue close threw during resolveBet
\* has no result and no payout in the ledger.
C31_LedgerOnlyAfterClose ==
    \A w \in Wallets : \A i \in 1..Len(BetsOf(w)) :
        BetsOf(w)[i].by \in hist.closeFailed =>
            /\ BetsOf(w)[i].result = "none"
            /\ BetsOf(w)[i].payouts = 0

\* --------------------------------------------------------------------- C32
\* betAmount x (size / betAmount) x |price - entryPrice| / entryPrice at the
\* price the position was resolved at.
WinProfit(pos) ==
    (pos.betAmount * (pos.size \div pos.betAmount) * Abs(pos.resolvedPrice - pos.entryPrice))
        \div pos.entryPrice

\* C32: every position that checkWins resolved as won has realizedPnL =
\* betAmount x (size / betAmount) x |price - entryPrice| / entryPrice, and
\* this value is strictly positive.
C32_WonPnLPositive ==
    \A i \in 1..Len(positions) :
        positions[i].status = "won" =>
            /\ positions[i].realizedPnL = WinProfit(positions[i])
            /\ positions[i].realizedPnL > 0

\* --------------------------------------------------------------------- C33
\* checkWins evaluates position i before its expiry with a price outside its
\* zone.
Premature(i, price) ==
    /\ positions[i].status = "active"
    /\ positions[i].expiryTime - now > 0
    /\ ~InZone(positions[i], price)

C33_EvaluationStep ==
    ((\E price \in Prices : PriceUpdate(price)) \/ ExpiryTimer) =>
        /\ \A i \in 1..Len(positions) :
              Premature(i, currentPrice') => positions'[Same(i)] = positions[i]
        /\ (\A i \in 1..Len(positions) :
                positions[i].status = "active" => Premature(i, currentPrice'))
              => stats' = stats

\* C33: no premature resolution.  When checkWins evaluates an active position
\* whose expiry time has not passed and whose zone does not contain the
\* price, the position is left as it is (active, no realizedPnL), and the
\* statistics are untouched when every active position is in that case.
C33_NoPrematureResolution == [][C33_EvaluationStep]_vars

\* An older position that has not expired and lies outside the zone is still
\* active after the evaluation that resolved a newer position at this price.
C33_Witness ==
    \E i, j \in 1..Len(positions) :
        /\ j < i
        /\ positions[j].status = "lost"
        /\ positions[j].resolvedAt = now
        /\ positions[j].resolvedPrice = currentPrice
        /\ positions[i].status = "active"
        /\ positions[i].expiryTime > now
        /\ ~InZone(positions[i], currentPrice)
        /\ positions[i].realizedPnL = 0

\* --------------------------------------------------------------------- C34
\* How many times the notification n has been added.
Added(bag, n) == IF n \in DOMAIN bag THEN bag[n] ELSE 0

C34_NotifyStep ==
    \A k \in 1..Len(sweeps) :
        sweeps[k].pc \in {"resolve", "closing"} =>
            LET pos == sweeps[k].items[sweeps[k].idx]
                n == Notif("error", "SettlementFailed", pos.id)
            IN (/\ SweepResolve(k) \/ SweepClose(k, "throw")
                /\ Added(notifications', n) > Added(notifications, n))
                  => pos.settlementAttempts + 1 = MaxAttempts

\* C34: the 'Settlement failed' error notification of a position is added
\* only by the failure that brings its settlementAttempts to 5, and by no
\* earlier failed attempt.
C34_NotifyOnlyOnFinalFailure == [][C34_NotifyStep]_vars

\* --------------------------------------------------------------------- C35
\* Bet ids a caller may pass: those the clock of the model can produce and
\* one that no bet ever gets.
BetIdArgs == {0, SlotMs, -1}

HasResult(user, betId) ==
    \E i \in 1..Len(user.bets) :
        /\ user.bets[i].betId = betId
        /\ \A j \in 1..(i - 1) : user.bets[j].betId # betId
        /\ user.bets[i].result # "none"

Unknown(user, betId) == \A i \in 1..Len(user.bets) : user.bets[i].betId # betId

C35_Answer ==
    \A w \in Wallets : \A betId \in BetIdArgs :
        /\ HasResult(GetUser(w), betId) =>
              ResolveBetCheck(GetUser(w), betId) = "Bet already resolved"
        /\ Unknown(GetUser(w), betId) =>
              ResolveBetCheck(GetUser(w), betId) = "Bet not found"

C35_RejectStep ==
    \A k \in 1..Len(sweeps) :
        sweeps[k].pc = "resolve" =>
            LET pos == sweeps[k].items[sweeps[k].idx] IN
            (/\ SweepResolve(k)
             /\ HasResult(GetUser(pos.userId), pos.id) \/ Unknown(GetUser(pos.userId), pos.id))
               => /\ users' = users
                  /\ sweeps'[k].pc # "closing"
                  /\ hist'.closes = hist.closes

\* C35: resolveBet for a bet that already has a result answers 'Bet already
\* resolved', and for an unknown betId 'Bet not found'; a rejected call
\* changes no ledger field and issues no venue close.
C35_ResolvedBetRejected == [](C35_Answer) /\ [][C35_RejectStep]_vars

\* resolveBet was called a second time for a position whose bet had its
\* result, and the call was rejected.
C35_Witness ==
    \E i \in 1..Len(positions) :
        /\ hist.resolves[positions[i].by] >= 2
        /\ positions[i].settlementAttempts >= 1
        /\ HasResult(GetUser(positions[i].userId), positions[i].id)
        /\ Unknown(GetUser("w2"), positions[i].id)

\* --------------------------------------------------------------------- C36
\* C36: a withdrawal debit is rolled back only if no funds left the
\* treasury: no call of requestWithdrawal has both refunded the balance and
\* submitted its transfer.
C36_RefundOnlyIfNotSent == \A cid \in hist.refunded : cid \notin hist.sent

\* --------------------------------------------------------------------- C37
\* The sum of the amounts of the bet records b[i..].
RECURSIVE SumBetAmounts(_, _)
SumBetAmounts(b, i) ==
    IF i > Len(b) THEN 0 ELSE b[i].amount + SumBetAmounts(b, i + 1)

\* C37: whenever no placeBet call is in flight for an account, its totalBets
\* equals the sum of the amounts of the records in its bets list.
C37_TotalBetsMatchesRecords ==
    \A w \in Wallets :
        (\A c \in CallsOf("placeBet") : c.wallet = w => c.pc # "trade")
            => users[w].totalBets = SumBetAmounts(BetsOf(w), 1)

\* --------------------------------------------------------------------- C38
C38_Counted ==
    /\ page.sharedPriceFeedSubscribers >= 0
    /\ Cardinality(page.live) <= 1

\* A step that tears the feed down (the service is dropped).
C38_TeardownStep ==
    (page.sharedPriceService # 0 /\ page'.sharedPriceService = 0)
        => /\ page.sharedPriceFeedSubscribers = 0
           /\ page.zeroFor >= GraceMs

\* A step that counts a component (a mount) leaves no teardown pending.
C38_MountStep ==
    page'.sharedPriceFeedSubscribers > page.sharedPriceFeedSubscribers
        => /\ page'.timers = {}
           /\ page'.sharedPriceFeedCleanupTimer = 0

\* C38: the subscriber count is never negative, at most one feed
\* subscription exists at a time, the feed is torn down only after the count
\* has stayed at 0 for the 250 ms grace period, and a mount during the grace
\* period cancels the pending teardown, so the feed is never torn down while
\* the count is above 0.
C38_SharedFeedRefCount ==
    [](C38_Counted) /\ [][C38_TeardownStep /\ C38_MountStep]_vars

\* A mount cancelled a pending teardown, a later teardown ran, and the feed
\* was subscribed again afterwards.
C38_Witness ==
    /\ page.cancelled
    /\ page.made >= 2
    /\ page.sharedPriceService = 0

\* --------------------------------------------------------------------- C39
\* The WebSockets of the instance that are connecting or open.
LiveSockets(p) == {k \in 1..Len(p.sockets) : p.sockets[k] \in {"connecting", "open"}}

C39_OneSocket == Cardinality(LiveSockets(pyth)) <= 1

C39_Attempts == pyth.reconnectAttempts <= MaxReconnectAttempts

\* A socket that opens resets reconnectAttempts.
C39_OpenStep ==
    (\E k \in 1..Len(pyth.sockets) : pyth.sockets[k] = "connecting" /\ pyth'.sockets[k] = "open")
        => pyth'.reconnectAttempts = 0

\* After disconnect() (shouldAttemptReconnect is false until the next
\* connect) a step other than a subscribeToPriceUpdates call neither
\* schedules a reconnect timer nor creates a socket.
C39_DisconnectedStep ==
    (~pyth.shouldAttemptReconnect /\ Len(subs') = Len(subs))
        => /\ Len(pyth'.sockets) = Len(pyth.sockets)
           /\ pyth'.timers \subseteq pyth.timers

C39_NoReconnectAfterDisconnect == [][C39_DisconnectedStep]_vars

\* C39: a PythWebSocketService instance has at most one WebSocket open or
\* connecting at any time, reconnectAttempts never exceeds 5 and is reset to
\* 0 when a socket opens, and after disconnect() no reconnect is scheduled
\* or executed until the next subscribeToPriceUpdates call.
C39_SingleSocketBoundedReconnect ==
    /\ [](C39_OneSocket /\ C39_Attempts)
    /\ [][C39_OpenStep /\ C39_DisconnectedStep]_vars


============================================================================
